---- MODULE Spec2Model ----
(***************************************************************************)
(* pywhy_graphs.admg: the acyclic directed mixed graph (ADMG) and the      *)
(* ancestral queries of AncestralMixin.  An ADMG is a MixedEdgeGraph that  *)
(* registers three networkx graphs (a DiGraph for the directed role, a     *)
(* Graph for the bidirected and one for the undirected role) and checks    *)
(* once, at construction, that the directed one is a DAG.                  *)
(***************************************************************************)
EXTENDS FiniteSets, Integers, Sequences, TLC

VARIABLES pc, reg, names, call, outcome, nmut

vars == <<pc, reg, names, call, outcome, nmut>>

(***************************************************************************)
(* Bounds of the model.                                                    *)
(***************************************************************************)
NumNodes == 2
MaxIn == 2
MaxMut == 1

Nodes == 1..NumNodes
Pairs == Nodes \X Nodes

(***************************************************************************)
(* networkx graphs.  A graph is its node set and its adjacency: for a      *)
(* DiGraph the pairs (u,v) with v a successor of u, for a Graph the        *)
(* symmetric adjacency (add_edge stores v under u and u under v).          *)
(***************************************************************************)
Endpoints(E) == {e[1] : e \in E} \cup {e[2] : e \in E}

Inverse(E) == {<<e[2], e[1]>> : e \in E}

NoGraph == [directed |-> FALSE, nodes |-> {}, edges |-> {}]

\* nx.DiGraph(edge list): add_edges_from adds both endpoints and u -> v.
nx_DiGraph(E) == [directed |-> TRUE, nodes |-> Endpoints(E), edges |-> E]

\* Mutant: a Graph that stores each edge under its first endpoint only.
nx_Graph_one_way(E) == [directed |-> FALSE, nodes |-> Endpoints(E), edges |-> E]

\* nx.Graph(edge list): add_edges_from adds both endpoints, u - v and v - u.
nx_Graph(E) == [directed |-> FALSE, nodes |-> Endpoints(E), edges |-> E \cup Inverse(E)]

\* G.add_edge(u, v) of a DiGraph or a Graph.
nx_add_edge(G, u, v) ==
    [G EXCEPT !.nodes = @ \cup {u, v},
              !.edges = IF G.directed THEN @ \cup {<<u, v>>}
                        ELSE @ \cup {<<u, v>>, <<v, u>>}]

\* G.remove_edge(u, v), the edge being present.
nx_remove_edge(G, u, v) ==
    [G EXCEPT !.edges = IF G.directed THEN @ \ {<<u, v>>}
                        ELSE @ \ {<<u, v>>, <<v, u>>}]

\* G.add_node(n).
nx_add_node(G, n) == [G EXCEPT !.nodes = @ \cup {n}]

\* G.remove_node(n), the node being present: the node and its incident edges.
nx_remove_node(G, n) ==
    [G EXCEPT !.nodes = @ \ {n},
              !.edges = {e \in @ : e[1] # n /\ e[2] # n}]

\* nx.is_directed_acyclic_graph: the topological sort (Kahn) consumes every
\* node exactly when no cycle exists; TopoRemaining is what it cannot consume.
RECURSIVE TopoRemaining(_, _)
TopoRemaining(N, E) ==
    LET zero == {n \in N : ~ \E e \in E : e[2] = n}
    IN  IF zero = {} THEN N
        ELSE TopoRemaining(N \ zero, {e \in E : e[1] \notin zero})

\* Mutant: a DAG check that does not count self-loops.
nx_is_dag_ignoring_self_loops(G) ==
    G.directed /\ TopoRemaining(G.nodes, {e \in G.edges : e[1] # e[2]}) = {}

nx_is_directed_acyclic_graph(G) ==
    G.directed /\ TopoRemaining(G.nodes, G.edges) = {}

\* Breadth-first search from a set of nodes along the edges E.
RECURSIVE Bfs(_, _)
Bfs(seen, E) ==
    LET next == seen \cup {e[2] : e \in {x \in E : x[1] \in seen}}
    IN  IF next = seen THEN seen ELSE Bfs(next, E)

(***************************************************************************)
(* Python values handed to networkx: a graph object, or a bound method     *)
(* (an attribute that was read but not called).                            *)
(***************************************************************************)
BoundMethod == [kind |-> "method", g |-> NoGraph]

Ok(v) == [kind |-> "ok", value |-> v]

Raise(k) == [kind |-> k, value |-> {}]

\* What a function of networkx raises when it is handed a bound method in
\* place of a graph: `source not in G` is a TypeError, G.has_node(source) of
\* older releases an AttributeError.
MisuseErrors == {"TypeError", "AttributeError"}

\* nx.descendants(G, source): the nodes a BFS from source reaches, less source.
nx_descendants(pv, source, k) ==
    IF pv.kind # "graph" THEN Raise(k)
    ELSE IF source \notin pv.g.nodes THEN Raise("NetworkXError")
    ELSE Ok(Bfs({source}, pv.g.edges) \ {source})

\* nx.ancestors(G, source): the same search on the reversed graph.
nx_ancestors(pv, source, k) ==
    IF pv.kind # "graph" THEN Raise(k)
    ELSE IF source \notin pv.g.nodes THEN Raise("NetworkXError")
    ELSE Ok(Bfs({source}, Inverse(pv.g.edges)) \ {source})

\* pv.successors(n): attribute lookup on the value, then DiGraph.successors.
py_successors(pv, n) ==
    IF pv.kind # "graph" THEN Raise("AttributeError")
    ELSE IF n \notin pv.g.nodes THEN Raise("NetworkXError")
    ELSE Ok({e[2] : e \in {x \in pv.g.edges : x[1] = n}})

\* pv.predecessors(n).
py_predecessors(pv, n) ==
    IF pv.kind # "graph" THEN Raise("AttributeError")
    ELSE IF n \notin pv.g.nodes THEN Raise("NetworkXError")
    ELSE Ok({e[1] : e \in {x \in pv.g.edges : x[2] = n}})

\* nx.connected_components(G): one BFS component per node of G.  Its
\* not_implemented_for("directed") guard calls G.is_directed() first.
nx_connected_components(pv) ==
    IF pv.kind # "graph" THEN Raise("AttributeError")
    ELSE Ok({Bfs({n}, pv.g.edges) : n \in pv.g.nodes})

(***************************************************************************)
(* MixedEdgeGraph: the registry of edge-type sub-graphs.                   *)
(***************************************************************************)
EmptyReg == [t \in {} |-> NoGraph]

\* super().__init__(**attr): a mixed-edge graph with no edge type.
MixedEdgeGraph_init == EmptyReg

\* add_edge_type(graph, name): a registered name is refused; the new
\* sub-graph keeps its own node set.
add_edge_type(r, G, name) ==
    IF name \in DOMAIN r
    THEN [err |-> "DuplicateEdgeTypeError", reg |-> r]
    ELSE [err |-> "ok", reg |-> [t \in DOMAIN r \cup {name} |->
                                    IF t = name THEN G ELSE r[t]]]

\* remove_edge_type(name).
remove_edge_type(r, name) ==
    IF name \notin DOMAIN r
    THEN [err |-> "UnknownEdgeTypeError", reg |-> r]
    ELSE [err |-> "ok", reg |-> [t \in DOMAIN r \ {name} |-> r[t]]]

\* _get_internal_graph(name): the live sub-graph registered under name.
get_internal_graph(r, name) ==
    IF name \in DOMAIN r THEN [err |-> "ok", g |-> r[name]]
    ELSE [err |-> "UnknownEdgeTypeError", g |-> NoGraph]

\* add_edge(u, v, edge_type): the edge goes to the named sub-graph, which
\* takes in the endpoints it does not know.
add_edge(r, u, v, name) ==
    IF name \notin DOMAIN r
    THEN [err |-> "UnknownEdgeTypeError", reg |-> r]
    ELSE [err |-> "ok", reg |-> [r EXCEPT ![name] = nx_add_edge(@, u, v)]]

\* remove_edge(u, v, edge_type), the edge being present.
remove_edge(r, u, v, name) ==
    IF name \notin DOMAIN r
    THEN [err |-> "UnknownEdgeTypeError", reg |-> r]
    ELSE [err |-> "ok", reg |-> [r EXCEPT ![name] = nx_remove_edge(@, u, v)]]

\* add_node(n): applies to every sub-graph.
add_node(r, n) == [t \in DOMAIN r |-> nx_add_node(r[t], n)]

\* remove_node(n): applies to every sub-graph.
remove_node(r, n) == [t \in DOMAIN r |-> nx_remove_node(r[t], n)]

\* The unified node view: the nodes of at least one sub-graph.
UnifiedNodes(r) == UNION {r[t].nodes : t \in DOMAIN r}

(***************************************************************************)
(* ADMG                                                                    *)
(***************************************************************************)
DefaultNames ==
    [directed |-> "directed", bidirected |-> "bidirected", undirected |-> "undirected"]

\* The error the constructor raises for a cyclic directed sub-graph.
NotADAGError == "RuntimeError"

\* ADMG.sub_directed_graph(): the live directed sub-graph.
sub_directed_graph(r, nm) == get_internal_graph(r, nm.directed)

\* ADMG.sub_bidirected_graph().
sub_bidirected_graph(r, nm) == get_internal_graph(r, nm.bidirected)

\* ADMG.sub_undirected_graph().
sub_undirected_graph(r, nm) == get_internal_graph(r, nm.undirected)

\* Mutant: a constructor without the DAG check.
ADMG_init_unchecked(dIn, bIn, uIn, nm) ==
    LET s1 == add_edge_type(MixedEdgeGraph_init, nx_DiGraph(dIn), nm.directed)
        s2 == add_edge_type(s1.reg, nx_Graph(bIn), nm.bidirected)
        s3 == add_edge_type(s2.reg, nx_Graph(uIn), nm.undirected)
    IN  IF s1.err # "ok" THEN [err |-> s1.err, reg |-> EmptyReg]
        ELSE IF s2.err # "ok" THEN [err |-> s2.err, reg |-> EmptyReg]
        ELSE IF s3.err # "ok" THEN [err |-> s3.err, reg |-> EmptyReg]
        ELSE [err |-> "ok", reg |-> s3.reg]

\* Mutant: a constructor that builds the undirected sub-graph from the
\* bidirected input.
ADMG_init_copies_bidirected(dIn, bIn, uIn, nm) ==
    LET s1 == add_edge_type(MixedEdgeGraph_init, nx_DiGraph(dIn), nm.directed)
        s2 == add_edge_type(s1.reg, nx_Graph(bIn), nm.bidirected)
        s3 == add_edge_type(s2.reg, nx_Graph(bIn), nm.undirected)
    IN  IF s1.err # "ok" THEN [err |-> s1.err, reg |-> EmptyReg]
        ELSE IF s2.err # "ok" THEN [err |-> s2.err, reg |-> EmptyReg]
        ELSE IF s3.err # "ok" THEN [err |-> s3.err, reg |-> EmptyReg]
        ELSE IF ~ nx_is_directed_acyclic_graph(sub_directed_graph(s3.reg, nm).g)
             THEN [err |-> NotADAGError, reg |-> EmptyReg]
        ELSE [err |-> "ok", reg |-> s3.reg]

\* Mutant: a constructor that carries on after a refused registration.
ADMG_init_ignores_refusal(dIn, bIn, uIn, nm) ==
    LET s1 == add_edge_type(MixedEdgeGraph_init, nx_DiGraph(dIn), nm.directed)
        s2 == add_edge_type(s1.reg, nx_Graph(bIn), nm.bidirected)
        s3 == add_edge_type(s2.reg, nx_Graph(uIn), nm.undirected)
    IN  IF ~ nx_is_directed_acyclic_graph(sub_directed_graph(s3.reg, nm).g)
        THEN [err |-> NotADAGError, reg |-> EmptyReg]
        ELSE [err |-> "ok", reg |-> s3.reg]

\* ADMG.__init__: three registrations in order (an exception of one ends the
\* constructor), then the DAG check on the directed sub-graph.
ADMG_init(dIn, bIn, uIn, nm) ==
    LET s1 == add_edge_type(MixedEdgeGraph_init, nx_DiGraph(dIn), nm.directed)
        s2 == add_edge_type(s1.reg, nx_Graph(bIn), nm.bidirected)
        s3 == add_edge_type(s2.reg, nx_Graph(uIn), nm.undirected)
    IN  IF s1.err # "ok" THEN [err |-> s1.err, reg |-> EmptyReg]
        ELSE IF s2.err # "ok" THEN [err |-> s2.err, reg |-> EmptyReg]
        ELSE IF s3.err # "ok" THEN [err |-> s3.err, reg |-> EmptyReg]
        ELSE IF ~ nx_is_directed_acyclic_graph(sub_directed_graph(s3.reg, nm).g)
             THEN [err |-> NotADAGError, reg |-> EmptyReg]
        ELSE [err |-> "ok", reg |-> s3.reg]

(***************************************************************************)
(* AncestralMixin and c_components: the value each hands to networkx is    *)
(* the attribute self.sub_directed_graph (self.sub_bidirected_graph), which*)
(* the class defines as a method and the body does not call.               *)
(***************************************************************************)
ancestors(r, nm, source, k) == nx_ancestors(BoundMethod, source, k)

descendants(r, nm, source, k) == nx_descendants(BoundMethod, source, k)

children(r, nm, n) == py_successors(BoundMethod, n)

parents(r, nm, n) == py_predecessors(BoundMethod, n)

c_components(r, nm) == nx_connected_components(BoundMethod)

(***************************************************************************)
(* The state machine.                                                      *)
(***************************************************************************)
NoCall == [op |-> "none", dirIn |-> {}, biIn |-> {}, unIn |-> {},
           u |-> 0, v |-> 0, etype |-> ""]

CtorCall(dIn, bIn, uIn) == [NoCall EXCEPT !.op = "ADMG", !.dirIn = dIn,
                                          !.biIn = bIn, !.unIn = uIn]

NodeCall(op, n) == [NoCall EXCEPT !.op = op, !.u = n]

EdgeCall(op, u, v, t) == [NoCall EXCEPT !.op = op, !.u = u, !.v = v, !.etype = t]

TypeCall(op, t) == [NoCall EXCEPT !.op = op, !.etype = t]

\* The edge collections of at most k edges.
RECURSIVE EdgeSets(_)
EdgeSets(k) ==
    IF k = 0 THEN {{}}
    ELSE LET less == EdgeSets(k - 1)
         IN  less \cup {E \cup {p} : E \in less, p \in Pairs}

\* The edge-type names the mutators are called with ("causal" is a name the
\* constructor never registers).
TypeNames == {"directed", "bidirected", "undirected", "causal"}

\* The sub-graphs add_edge_type is called with.
RegisterInputs == {nx_DiGraph({}), nx_DiGraph({<<1, 1>>}), nx_Graph({<<1, 2>>})}

\* The role names a constructor call is given.
NameChoices ==
    {DefaultNames,
     [DefaultNames EXCEPT !.bidirected = "directed"],
     [DefaultNames EXCEPT !.undirected = "directed"],
     [DefaultNames EXCEPT !.undirected = "bidirected"]}

Init ==
    /\ pc = "new"
    /\ reg = EmptyReg
    /\ names = DefaultNames
    /\ call = NoCall
    /\ outcome = Ok({})
    /\ nmut = 0

\* G = ADMG(dIn, bIn, uIn, directed_edge_name=..., ...)
Construct ==
    /\ pc = "new"
    /\ \E dIn \in EdgeSets(MaxIn), nm \in NameChoices :
       \E bIn \in EdgeSets(MaxIn - Cardinality(dIn)) :
       \E uIn \in EdgeSets(MaxIn - Cardinality(dIn) - Cardinality(bIn)) :
         LET r == ADMG_init(dIn, bIn, uIn, nm)
         IN  /\ call' = CtorCall(dIn, bIn, uIn)
             /\ names' = nm
             /\ outcome' = IF r.err = "ok" THEN Ok({}) ELSE Raise(r.err)
             /\ pc' = IF r.err = "ok" THEN "built" ELSE "failed"
             /\ reg' = r.reg
    /\ UNCHANGED nmut

\* G.ancestors(source)
Ancestors ==
    /\ pc = "built"
    /\ \E source \in Nodes, k \in MisuseErrors :
         /\ call' = NodeCall("ancestors", source)
         /\ outcome' = ancestors(reg, names, source, k)
    /\ UNCHANGED <<pc, reg, names, nmut>>

\* G.descendants(source)
Descendants ==
    /\ pc = "built"
    /\ \E source \in Nodes, k \in MisuseErrors :
         /\ call' = NodeCall("descendants", source)
         /\ outcome' = descendants(reg, names, source, k)
    /\ UNCHANGED <<pc, reg, names, nmut>>

\* set(G.children(n))
Children ==
    /\ pc = "built"
    /\ \E n \in Nodes :
         /\ call' = NodeCall("children", n)
         /\ outcome' = children(reg, names, n)
    /\ UNCHANGED <<pc, reg, names, nmut>>

\* set(G.parents(n))
Parents ==
    /\ pc = "built"
    /\ \E n \in Nodes :
         /\ call' = NodeCall("parents", n)
         /\ outcome' = parents(reg, names, n)
    /\ UNCHANGED <<pc, reg, names, nmut>>

\* list(G.c_components())
CComponents ==
    /\ pc = "built"
    /\ call' = [NoCall EXCEPT !.op = "c_components"]
    /\ outcome' = c_components(reg, names)
    /\ UNCHANGED <<pc, reg, names, nmut>>

(***************************************************************************)
(* Mutators: those the ADMG inherits from MixedEdgeGraph, and those of the *)
(* live DiGraph that sub_directed_graph() returns.                         *)
(***************************************************************************)
Mutate(op, res) ==
    /\ call' = op
    /\ outcome' = IF res.err = "ok" THEN Ok({}) ELSE Raise(res.err)
    /\ reg' = res.reg
    /\ nmut' = nmut + 1
    /\ UNCHANGED <<pc, names>>

\* G.add_edge(u, v, edge_type)
AddEdge ==
    /\ pc = "built" /\ nmut < MaxMut
    /\ \E u \in Nodes, v \in Nodes, t \in TypeNames :
         Mutate(EdgeCall("add_edge", u, v, t), add_edge(reg, u, v, t))

\* G.remove_edge(u, v, edge_type)
RemoveEdge ==
    /\ pc = "built" /\ nmut < MaxMut
    /\ \E t \in DOMAIN reg : \E e \in reg[t].edges :
         Mutate(EdgeCall("remove_edge", e[1], e[2], t), remove_edge(reg, e[1], e[2], t))

\* G.add_node(n)
AddNode ==
    /\ pc = "built" /\ nmut < MaxMut
    /\ \E n \in Nodes :
         Mutate(NodeCall("add_node", n), [err |-> "ok", reg |-> add_node(reg, n)])

\* G.remove_node(n)
RemoveNode ==
    /\ pc = "built" /\ nmut < MaxMut
    /\ \E n \in UnifiedNodes(reg) :
         Mutate(NodeCall("remove_node", n), [err |-> "ok", reg |-> remove_node(reg, n)])

\* G.add_edge_type(graph, edge_type)
RegisterEdgeType ==
    /\ pc = "built" /\ nmut < MaxMut
    /\ \E g \in RegisterInputs, t \in TypeNames :
         Mutate(TypeCall("add_edge_type", t), add_edge_type(reg, g, t))

\* G.remove_edge_type(edge_type)
UnregisterEdgeType ==
    /\ pc = "built" /\ nmut < MaxMut
    /\ \E t \in TypeNames :
         Mutate(TypeCall("remove_edge_type", t), remove_edge_type(reg, t))

\* A mutator of the live DiGraph that sub_directed_graph() returns: got is
\* what the accessor returned, G the graph after the mutator.
MutateLive(op, got, G) ==
    Mutate(op, IF got.err # "ok" THEN [err |-> got.err, reg |-> reg]
               ELSE [err |-> "ok", reg |-> [reg EXCEPT ![names.directed] = G]])

\* G.sub_directed_graph().add_edge(u, v)
LiveAddEdge ==
    /\ pc = "built" /\ nmut < MaxMut
    /\ \E u \in Nodes, v \in Nodes :
         LET got == sub_directed_graph(reg, names)
         IN  MutateLive(EdgeCall("live_add_edge", u, v, names.directed), got,
                        nx_add_edge(got.g, u, v))

\* G.sub_directed_graph().remove_edge(u, v)
LiveRemoveEdge ==
    /\ pc = "built" /\ nmut < MaxMut
    /\ LET got == sub_directed_graph(reg, names)
       IN  \E e \in got.g.edges :
             MutateLive(EdgeCall("live_remove_edge", e[1], e[2], names.directed), got,
                        nx_remove_edge(got.g, e[1], e[2]))

\* G.sub_directed_graph().add_node(n)
LiveAddNode ==
    /\ pc = "built" /\ nmut < MaxMut
    /\ \E n \in Nodes :
         LET got == sub_directed_graph(reg, names)
         IN  MutateLive(NodeCall("live_add_node", n), got, nx_add_node(got.g, n))

\* G.sub_directed_graph().remove_node(n)
LiveRemoveNode ==
    /\ pc = "built" /\ nmut < MaxMut
    /\ LET got == sub_directed_graph(reg, names)
       IN  \E n \in got.g.nodes :
             MutateLive(NodeCall("live_remove_node", n), got, nx_remove_node(got.g, n))

NextMixed ==
    \/ Construct
    \/ AddEdge
    \/ RemoveEdge
    \/ AddNode
    \/ RemoveNode
    \/ RegisterEdgeType
    \/ UnregisterEdgeType
    \/ LiveAddEdge
    \/ LiveRemoveEdge
    \/ LiveAddNode
    \/ LiveRemoveNode

SpecMixed == Init /\ [][NextMixed]_vars

Next ==
    \/ Construct
    \/ Ancestors
    \/ Descendants
    \/ Children
    \/ Parents
    \/ CComponents

Spec == Init /\ [][Next]_vars

(***************************************************************************)
(* Properties.                                                             *)
(***************************************************************************)
\* The pairs (a, b) joined by a non-empty path of E, by Warshall's recurrence
\* over the intermediate nodes 1..k.
RECURSIVE PathsVia(_, _)
PathsVia(E, k) ==
    IF k = 0 THEN E
    ELSE LET P == PathsVia(E, k - 1)
         IN  P \cup {p \in Pairs : <<p[1], k>> \in P /\ <<k, p[2]>> \in P}

Paths(E) == PathsVia(E, NumNodes)

HasCycle(E) == \E n \in Nodes : <<n, n>> \in Paths(E)

DistinctNames(nm) ==
    /\ nm.directed # nm.bidirected
    /\ nm.directed # nm.undirected
    /\ nm.bidirected # nm.undirected

Symmetric(E) == \A e \in E : <<e[2], e[1]>> \in E

Constructed == call.op = "ADMG" /\ pc = "built"

DirectedRegistered == names.directed \in DOMAIN reg

\* The edges of the directed / bidirected / undirected sub-graph of a built ADMG.
DirEdges == sub_directed_graph(reg, names).g.edges
DirNodes == sub_directed_graph(reg, names).g.nodes
BiEdges == sub_bidirected_graph(reg, names).g.edges
BiNodes == sub_bidirected_graph(reg, names).g.nodes
UnEdges == sub_undirected_graph(reg, names).g.edges

\* C1: a constructor call with three distinct role names succeeds exactly when
\* its directed input edges hold no directed cycle, whatever the bidirected
\* and undirected inputs are; it fails with NotADAGError otherwise, and the
\* directed sub-graph of the ADMG it builds is acyclic.
C1_ConstructsIffAcyclic ==
    (call.op = "ADMG" /\ DistinctNames(names)) =>
        /\ pc \in {"built", "failed"}
        /\ (pc = "built") <=> ~ HasCycle(call.dirIn)
        /\ (pc = "failed") => outcome.kind = NotADAGError
        /\ (pc = "built") => (outcome.kind = "ok" /\ ~ HasCycle(DirEdges))

\* C1 witness: a call whose directed input holds a 2-cycle has failed.
C1_Witness ==
    /\ call.op = "ADMG" /\ DistinctNames(names) /\ pc = "failed"
    /\ \E u \in Nodes, v \in Nodes :
         u # v /\ {<<u, v>>, <<v, u>>} \subseteq call.dirIn

\* C2 as stated: the directed sub-graph of a built ADMG is acyclic in every
\* reachable state.
C2_DirectedAlwaysAcyclic ==
    (pc = "built" /\ DirectedRegistered) => ~ HasCycle(DirEdges)

\* C2 amended: the directed sub-graph is acyclic right after a successful
\* construction, and while the directed edge type stays registered a mutator
\* makes an acyclic directed sub-graph cyclic only by inserting one directed
\* edge u -> v with u = v or with a directed path from v to u.
C2_AcyclicUnlessDirectedEdgeInserted ==
    [][ /\ (pc = "new" /\ pc' = "built") =>
              ~ HasCycle(reg'[names'.directed].edges)
        /\ ( /\ pc = "built" /\ DirectedRegistered /\ DirectedRegistered'
             /\ DirEdges' # DirEdges
             /\ ~ HasCycle(DirEdges) /\ HasCycle(DirEdges') ) =>
              /\ call'.op \in {"add_edge", "live_add_edge"}
              /\ call'.etype = names.directed
              /\ DirEdges' = DirEdges \cup {<<call'.u, call'.v>>}
              /\ \/ call'.u = call'.v
                 \/ <<call'.v, call'.u>> \in Paths(DirEdges)
      ]_vars

\* C2 witness: an edge inserted into the live directed sub-graph closed a cycle.
C2_Witness ==
    /\ pc = "built" /\ DirectedRegistered
    /\ call.op = "live_add_edge" /\ outcome.kind = "ok"
    /\ HasCycle(DirEdges)

\* C3: children(u) produces exactly the v with a directed edge u -> v, and
\* parents(v) exactly the u with a directed edge u -> v.
C3_ChildrenParents ==
    /\ (pc = "built" /\ call.op = "children" /\ call.u \in DirNodes) =>
          /\ outcome.kind = "ok"
          /\ outcome.value = {v \in Nodes : <<call.u, v>> \in DirEdges}
    /\ (pc = "built" /\ call.op = "parents" /\ call.u \in DirNodes) =>
          /\ outcome.kind = "ok"
          /\ outcome.value = {u \in Nodes : <<u, call.u>> \in DirEdges}

\* C4: ancestors(s) is the set of nodes a # s with a directed path to s, and
\* descendants(s) the set of nodes d # s with a directed path from s.
C4_AncestorsDescendants ==
    /\ (pc = "built" /\ call.op = "ancestors" /\ call.u \in DirNodes) =>
          /\ outcome.kind = "ok"
          /\ outcome.value =
               {a \in Nodes \ {call.u} : <<a, call.u>> \in Paths(DirEdges)}
    /\ (pc = "built" /\ call.op = "descendants" /\ call.u \in DirNodes) =>
          /\ outcome.kind = "ok"
          /\ outcome.value =
               {d \in Nodes \ {call.u} : <<call.u, d>> \in Paths(DirEdges)}

\* C5: the sets c_components() produces are pairwise disjoint, cover the nodes
\* of the bidirected sub-graph, and put two nodes together exactly when a
\* chain of bidirected edges joins them.
C5_CComponentsPartition ==
    (pc = "built" /\ call.op = "c_components") =>
        /\ outcome.kind = "ok"
        /\ \A A \in outcome.value, B \in outcome.value : A = B \/ A \cap B = {}
        /\ UNION outcome.value = BiNodes
        /\ \A a \in BiNodes, b \in BiNodes :
             (\E A \in outcome.value : {a, b} \subseteq A)
                <=> (a = b \/ <<a, b>> \in Paths(BiEdges))

\* C6: c_components() produces the singleton {n} for every node n of the ADMG
\* that has no bidirected edge.
C6_CComponentsSingletons ==
    (pc = "built" /\ call.op = "c_components") =>
        \A n \in UnifiedNodes(reg) :
            (~ \E e \in BiEdges : e[1] = n \/ e[2] = n) =>
                (outcome.kind = "ok" /\ {n} \in outcome.value)

\* The error networkx raises for a node that is not in the graph.
NodeNotFoundError == "NetworkXError"

AncestralQueries == {"ancestors", "descendants", "children", "parents"}

\* C7: an ancestral query with a node absent from the directed sub-graph
\* fails with NodeNotFoundError and leaves every sub-graph as it was.
C7_AbsentNodeQueryFails ==
    [][ ( /\ pc = "built" /\ call' # call
          /\ call'.op \in AncestralQueries
          /\ call'.u \notin DirNodes ) =>
            (outcome'.kind = NodeNotFoundError /\ reg' = reg)
      ]_vars

\* C8: a node is in the unified node view exactly when a registered sub-graph
\* holds it: a built ADMG has the endpoints of its three inputs, an edge just
\* added has both endpoints in the view, a node just added is in the view and
\* a node just removed is not.
C8_UnifiedNodesIsUnion ==
    /\ Constructed =>
          UnifiedNodes(reg) = Endpoints(call.dirIn \cup call.biIn \cup call.unIn)
    /\ (pc = "built" /\ outcome.kind = "ok") =>
          /\ call.op \in {"add_edge", "live_add_edge"} =>
                {call.u, call.v} \subseteq UnifiedNodes(reg)
          /\ (call.op = "add_node" /\ DOMAIN reg # {}) => call.u \in UnifiedNodes(reg)
          /\ call.op = "remove_node" => call.u \notin UnifiedNodes(reg)
    /\ \A n \in Nodes :
          n \in UnifiedNodes(reg) <=> \E t \in DOMAIN reg : n \in reg[t].nodes

\* C8 witness: an ADMG built from a directed and a non-directed edge whose
\* endpoints differ.
C8_Witness ==
    /\ Constructed
    /\ call.dirIn # {}
    /\ call.biIn \cup call.unIn # {}
    /\ Endpoints(call.dirIn) # Endpoints(call.biIn \cup call.unIn)

\* C9: add_edge_type with a registered name fails with DuplicateEdgeTypeError
\* and leaves the registry as it was; a constructor call that gives two roles
\* the same name fails with that error and builds nothing.
C9_DuplicateNameRefused ==
    [][ /\ ( /\ pc = "built" /\ nmut' = nmut + 1
             /\ call'.op = "add_edge_type"
             /\ call'.etype \in DOMAIN reg ) =>
               (outcome'.kind = "DuplicateEdgeTypeError" /\ reg' = reg)
        /\ (pc = "new" /\ pc' # "new" /\ ~ DistinctNames(names')) =>
               /\ pc' = "failed"
               /\ outcome'.kind = "DuplicateEdgeTypeError"
               /\ reg' = EmptyReg
      ]_vars

\* C9 witness: a constructor call with a repeated role name has failed.
C9_Witness ==
    /\ pc = "failed" /\ call.op = "ADMG"
    /\ ~ DistinctNames(names)
    /\ outcome.kind = "DuplicateEdgeTypeError"

\* C10 as stated: the bidirected and the undirected sub-graph of a built ADMG
\* are symmetric and hold no self-loop.
C10_SimpleSubGraphs ==
    pc = "built" =>
        /\ Symmetric(BiEdges) /\ Symmetric(UnEdges)
        /\ \A v \in Nodes : <<v, v>> \notin BiEdges /\ <<v, v>> \notin UnEdges

\* C10 amended: the bidirected and the undirected sub-graph of a built ADMG
\* are symmetric, and each holds the self-loop (v, v) exactly when its input
\* edge collection holds (v, v).
C10_SymmetricLoopsAsGiven ==
    pc = "built" =>
        /\ Symmetric(BiEdges) /\ Symmetric(UnEdges)
        /\ call.op = "ADMG" =>
              \A v \in Nodes :
                    /\ <<v, v>> \in BiEdges <=> <<v, v>> \in call.biIn
                    /\ <<v, v>> \in UnEdges <=> <<v, v>> \in call.unIn

\* C10 witness: an ADMG built from a bidirected input with a self-loop and a
\* one-way edge.
C10_Witness ==
    /\ Constructed
    /\ \E v \in Nodes : <<v, v>> \in call.biIn
    /\ \E e \in call.biIn : e[1] # e[2] /\ <<e[2], e[1]>> \notin call.biIn

====
